---- MODULE Spec2Model ----
(***************************************************************************)
(* CV Shelves backend: the prediction endpoints (rfdetr / yolo / both),    *)
(* the duplicate guard, and the history API over the predictions table.    *)
(*                                                                         *)
(* The predictions table lives in an external database shared by every     *)
(* server process; nothing in the handlers locks it, so the database       *)
(* calls of different requests interleave.  A handler's steps between two  *)
(* database calls are modelled one action each, in the order of the code.  *)
(* Numbers that are floats in the program (thresholds, confidences) are    *)
(* integers in hundredths here: 0.1 is 10, 0.4 is 40.                      *)
(*                                                                         *)
(* Spec is the running service: the predict endpoints, the history API     *)
(* (get, query, update, delete) and the DB/init_db.py script that adds     *)
(* the sample predictions.  The users table holds the users "u1" and "u2"  *)
(* with the usernames "ad" and "Bo"; no action of Spec changes it.         *)
(* SpecCalls calls MLService.predict_rfdetr, MLService.predict_yolo and    *)
(* PredictionCRUD.create_prediction on their own, with arguments the       *)
(* endpoints never pass.  SpecAdmin is the service with the endpoints that *)
(* Spec leaves out: check-duplicate, statistics and the deletion of a      *)
(* user, next to the predict endpoints and the deletion of a prediction,   *)
(* with the exceptions the database and the file system may raise.         *)
(***************************************************************************)
EXTENDS Integers, Sequences, FiniteSets, TLC

\* Total number of requests the clients submit in one behaviour.
MaxRequests == 3

\* Python None / SQL NULL in a numeric column or an id-valued field.
Null == -1
\* None / NULL in a text column (no text holds the code 0).
NullText == <<0>>
\* None / NULL in a string-valued column.
NullStr == "NULL"
\* image_hash before generate_image_hash has run.
NoHash == <<>>

\* Concurrent request handlers (two server workers / in-flight requests).
Handlers == {1, 2}

\* The ids of the users the users table holds when the service starts.
UserIds == {"u1", "u2"}

\* Texts are sequences of character codes: "a" and "Ab".
TextA == <<97>>
TextAb == <<65, 98>>

\* The form fields of the predict requests the clients send.  Single-model
\* endpoints read confidence_threshold, /predict/both reads the two others.
PredictInput(endpoint, user, upload, content, ct, rt, yt, comment) ==
    [endpoint |-> endpoint, user |-> user, upload |-> upload, content |-> content,
     confidence_threshold |-> ct, rfdetr_confidence_threshold |-> rt,
     yolo_confidence_threshold |-> yt, comment |-> comment]

PredictInputs ==
    { PredictInput("rfdetr", "u1", "image", "imgA", 10, Null, Null, NullText),
      PredictInput("rfdetr", "u2", "image", "imgA", 10, Null, Null, TextA),
      PredictInput("rfdetr", "u1", "image", "imgA", 40, Null, Null, NullText),
      PredictInput("yolo", "u2", "image", "imgA", 40, Null, Null, TextA),
      PredictInput("both", "u1", "image", "imgB", Null, 10, 40, NullText),
      PredictInput("both", "u2", "image", "imgB", Null, 10, 10, TextA),
      PredictInput("rfdetr", "u1", "not_image", "imgB", 10, Null, Null, NullText) }

NoInput == PredictInput("none", NullStr, "none", "none", Null, Null, Null, NullText)

\* A request as a handler holds it: the operation, its form fields (predict),
\* its path parameter (get / update / delete) and its comment (update).
Request(op, in, id, text) == [op |-> op, in |-> in, id |-> id, text |-> text]

NoRequest == Request("none", NoInput, Null, NullText)

\* A response: HTTP status and the JSON fields the claims read.
Response(status, dup, dupId, predId, body) ==
    [status |-> status, is_duplicate |-> dup, duplicate_id |-> dupId,
     prediction_id |-> predId, body |-> body]

NoResponse == Response(0, FALSE, Null, Null, <<>>)

\* The query parameters of GET /predictions.  An absent optional parameter is
\* NullStr (user_id, model), NullText (search_text) or Null (the confidences).
QueryInput(skip, limit, user_id, model, search_text, min_confidence, max_confidence) ==
    [skip |-> skip, limit |-> limit, user_id |-> user_id, model |-> model,
     search_text |-> search_text, min_confidence |-> min_confidence,
     max_confidence |-> max_confidence]

\* The queries the clients send.
QueryInputs ==
    { QueryInput(0, 100, NullStr, NullStr, NullText, Null, Null),
      QueryInput(1, 1, NullStr, NullStr, NullText, Null, Null),
      QueryInput(0, 100, NullStr, NullStr, NullText, 80, 100),
      QueryInput(0, 100, NullStr, NullStr, NullText, 90, 10),
      QueryInput(0, 100, NullStr, "both", NullText, Null, Null),
      QueryInput(0, 100, NullStr, NullStr, TextA, Null, Null),
      QueryInput(0, 100, "u1", "rfdetr", TextA, 0, 100),
      QueryInput(0, -1, NullStr, NullStr, NullText, Null, Null),
      QueryInput(0, 0, NullStr, NullStr, NullText, Null, Null),
      QueryInput(0, 1001, NullStr, NullStr, NullText, Null, Null),
      QueryInput(-1, 100, NullStr, NullStr, NullText, Null, Null) }

\* A direct call of one function of the program: the function, its arguments
\* and, once it has returned, its result.
Call(op, args, out) == [op |-> op, args |-> args, out |-> out]

NoCall == Call("none", <<>>, <<>>)

\* The handler's local variables: results per detector, image_hash, and
\* whether `duplicate = duplicate_query.first()` has been executed.
NoLocals == [results |-> <<>>, image_hash |-> NoHash, dup_done |-> FALSE]

VARIABLES
    store,      \* the predictions table: id -> row
    nextId,     \* number of rows ever inserted, plus one (fresh ids, clock)
    started,    \* number of requests submitted so far
    pc,         \* each handler's position in its endpoint function
    req,        \* each handler's request
    loc,        \* each handler's local variables
    resp,       \* each handler's response, once it has answered
    tmp,        \* handlers whose temporary image file exists
    call,       \* a direct call of one function: its arguments and its result
    users       \* the users table: the ids of its rows

vars == <<store, nextId, started, pc, req, loc, resp, tmp, call, users>>

(***************************************************************************)
(* The detectors and app/services/ml_service.py                            *)
(***************************************************************************)

\* What the two loaded models see in each image: the confidences of the
\* candidate detections, in emission order.
RawConfidences(detector, content) ==
    CASE detector = "rfdetr" /\ content = "imgA" -> <<90, 30>>
      [] detector = "rfdetr" /\ content = "imgB" -> <<>>
      [] detector = "yolo" /\ content = "imgA" -> <<80>>
      [] OTHER -> <<70, 20>>

RECURSIVE SumSeq(_)
SumSeq(s) == IF s = <<>> THEN 0 ELSE Head(s) + SumSeq(Tail(s))

\* AvgConfidence without the division by len(confidences).
SumOfConfidences(confidences) == SumSeq(confidences)

\* sum(confidences) / len(confidences) if confidences else 0.0
AvgConfidence(confidences) ==
    IF confidences = <<>> THEN 0 ELSE SumSeq(confidences) \div Len(confidences)

AtLeast(threshold, c) == c >= threshold

\* MLService.predict_rfdetr from the point where model.predict has returned
\* `raw`: mask by the threshold, average, list the detections.
FilterRfdetrDetections(raw, confidence_threshold) ==
    LET confidences == SelectSeq(raw, LAMBDA c : AtLeast(confidence_threshold, c))
    IN  [detections |-> [i \in 1..Len(confidences) |->
                            [confidence |-> confidences[i], class_id |-> 0,
                             class_name |-> "item"]],
         confidence |-> AvgConfidence(confidences),
         model |-> "rfdetr"]

\* MLService.predict_rfdetr on the image the loaded model is given.
MLPredictRfdetr(content, confidence_threshold) ==
    FilterRfdetrDetections(RawConfidences("rfdetr", content), confidence_threshold)

\* The YOLO backend is called with conf=confidence_threshold and returns the
\* boxes at or above it.
YoloBoxes(content, conf) ==
    SelectSeq(RawConfidences("yolo", content), LAMBDA c : AtLeast(conf, c))

\* MLService.predict_yolo from the point where model.predict(conf=...) has
\* returned `boxes`: list every box of the result, average them.  The
\* threshold was handed to the backend and is not read again.
ConvertYoloResults(boxes, confidence_threshold) ==
    [detections |-> [i \in 1..Len(boxes) |->
                        [confidence |-> boxes[i], class_id |-> 0,
                         class_name |-> "shelf"]],
     confidence |-> AvgConfidence(boxes),
     model |-> "yolo"]

\* MLService.predict_yolo on the image the loaded model is given.
MLPredictYolo(content, confidence_threshold) ==
    ConvertYoloResults(YoloBoxes(content, confidence_threshold), confidence_threshold)

(***************************************************************************)
(* app/routers.py helpers                                                  *)
(***************************************************************************)

\* validate_image_file: 0 when the upload passes, else the status it raises.
ValidateImageFile(upload) ==
    CASE upload = "too_large" -> 413
      [] upload = "image" -> 0
      [] OTHER -> 400

\* image_to_base64: a data URL of the file's bytes.
ImageToBase64(content) == <<"data:image/jpeg;base64", content>>

\* generate_image_hash: the SHA-256 hex digest of the file's bytes.
GenerateImageHash(content) == <<"sha256", content>>

(***************************************************************************)
(* DB/schema.py and DB/crud.py                                             *)
(***************************************************************************)

\* A row of the predictions table.
Prediction(id, user_id, model, image_base64, image_hash, results, confidence, rfdetr_confidence, yolo_confidence, confidence_threshold, rfdetr_threshold, yolo_threshold, comment, created_at) ==
    [id |-> id, user_id |-> user_id, model |-> model, image_url |-> NullStr,
     image_base64 |-> image_base64, image_hash |-> image_hash, results |-> results,
     confidence |-> confidence, rfdetr_confidence |-> rfdetr_confidence,
     yolo_confidence |-> yolo_confidence,
     confidence_threshold |-> confidence_threshold,
     rfdetr_threshold |-> rfdetr_threshold, yolo_threshold |-> yolo_threshold,
     comment |-> comment, created_at |-> created_at]

\* PredictionCRUD.create_prediction: db.add + db.commit of one new row.  The
\* table declares a primary key on id and no other uniqueness constraint.
CreatePrediction(s, row) == s @@ (row.id :> row)

\* PredictionCRUD.get_prediction_by_id: the row, or nothing.
GetPredictionById(s, prediction_id) ==
    IF prediction_id \in DOMAIN s THEN <<s[prediction_id]>> ELSE <<>>

\* update_prediction_comment with the id filter lost: every row is updated.
UpdateEveryComment(s, prediction_id, comment) ==
    IF prediction_id \in DOMAIN s
    THEN [id \in DOMAIN s |-> [s[id] EXCEPT !.comment = comment]]
    ELSE s

\* PredictionCRUD.update_prediction_comment: the table after the call.
UpdatePredictionComment(s, prediction_id, comment) ==
    IF prediction_id \in DOMAIN s
    THEN [s EXCEPT ![prediction_id].comment = comment]
    ELSE s

\* delete_prediction as a soft delete: the row stays, marked in its comment.
DeletePredictionSoft(s, prediction_id) ==
    IF prediction_id \in DOMAIN s
    THEN [s EXCEPT ![prediction_id].comment = <<100, 101, 108>>]
    ELSE s

\* PredictionCRUD.delete_prediction: the table after the call.
DeletePrediction(s, prediction_id) ==
    [id \in DOMAIN s \ {prediction_id} |-> s[id]]

\* PredictionCRUD.get_predictions_count / get_predictions_by_model.
GetPredictionsCount(s) == Cardinality(DOMAIN s)
GetPredictionsByModel(s, model) == Cardinality({id \in DOMAIN s : s[id].model = model})

\* The users table: the username of each user id.
Username(user_id) ==
    CASE user_id = "u1" -> <<97, 100>>
      [] user_id = "u2" -> <<66, 111>>
      [] OTHER -> NullText

\* A row's id as the text ILIKE sees.
IdText(id) == <<48 + id>>

LowerCode(c) == IF c \in 65..90 THEN c + 32 ELSE c

\* The LIKE pattern language of the database: % (37) matches any run of
\* characters, _ (95) any one character, \ (92) takes the next character
\* literally, any other character matches itself in either case.
RECURSIVE LikeMatch(_, _)
LikeMatch(text, pattern) ==
    IF pattern = <<>> THEN text = <<>>
    ELSE IF Head(pattern) = 37
         THEN \/ LikeMatch(text, Tail(pattern))
              \/ text # <<>> /\ LikeMatch(Tail(text), pattern)
    ELSE IF Head(pattern) = 92 /\ Len(pattern) >= 2
         THEN /\ text # <<>>
              /\ LowerCode(Head(text)) = LowerCode(pattern[2])
              /\ LikeMatch(Tail(text), Tail(Tail(pattern)))
    ELSE /\ text # <<>>
         /\ Head(pattern) = 95 \/ LowerCode(Head(text)) = LowerCode(Head(pattern))
         /\ LikeMatch(Tail(text), Tail(pattern))

\* column ILIKE pattern: a NULL column matches nothing.
ILike(text, pattern) == text # NullText /\ LikeMatch(text, pattern)

\* f"%{search_text}%": the text is pasted into the pattern as it was sent.
SearchPattern(search_text) == <<37>> \o search_text \o <<37>>

\* ORDER BY created_at DESC over the rows of s with the given ids.
RECURSIVE OrderByCreatedDesc(_, _)
OrderByCreatedDesc(s, ids) ==
    IF ids = {} THEN <<>>
    ELSE LET newest == CHOOSE x \in ids : \A y \in ids : s[y].created_at <= s[x].created_at
         IN  <<s[newest]>> \o OrderByCreatedDesc(s, ids \ {newest})

\* OffsetLimit without .offset(skip).
LimitOnly(rows, skip, limit) ==
    SubSeq(rows, 1, IF limit < Len(rows) THEN limit ELSE Len(rows))

\* .offset(skip).limit(limit)
OffsetLimit(rows, skip, limit) ==
    SubSeq(rows, skip + 1, IF skip + limit < Len(rows) THEN skip + limit ELSE Len(rows))

\* The or_(...) of the three ILIKE conditions over the outer join with users.
SearchFilter(row, search_text) ==
    \/ ILike(row.comment, SearchPattern(search_text))
    \/ ILike(Username(row.user_id), SearchPattern(search_text))
    \/ ILike(IdText(row.id), SearchPattern(search_text))

\* ConfidenceFilter with > and < in the place of >= and <=.
ConfidenceFilterExclusive(row, min_confidence, max_confidence) ==
    /\ min_confidence # Null =>
           (row.confidence # Null /\ row.confidence > min_confidence)
    /\ max_confidence # Null =>
           (row.confidence # Null /\ row.confidence < max_confidence)

\* ConfidenceFilter that compares with the bounds' defaults when none is
\* given: a row with a NULL confidence never passes.
ConfidenceFilterDefaulted(row, min_confidence, max_confidence) ==
    /\ row.confidence # Null
    /\ min_confidence # Null => row.confidence >= min_confidence
    /\ max_confidence # Null => row.confidence <= max_confidence

\* The and_(...) of the conditions on Prediction.confidence, one per bound
\* that was given; a comparison with a NULL confidence is not true.
ConfidenceFilter(row, min_confidence, max_confidence) ==
    /\ min_confidence # Null =>
           (row.confidence # Null /\ row.confidence >= min_confidence)
    /\ max_confidence # Null =>
           (row.confidence # Null /\ row.confidence <= max_confidence)

\* PredictionCRUD.get_predictions.  An absent filter is NullStr (user_id,
\* model), NullText (search_text) or Null (min_confidence, max_confidence).
GetPredictions(s, skip, limit, user_id, model, search_text, min_confidence, max_confidence) ==
    LET Matches(row) ==
            /\ (user_id # NullStr /\ user_id # "") => row.user_id = user_id
            /\ (model # NullStr /\ model # "" /\ model # "all") => row.model = model
            /\ (search_text # NullText /\ search_text # <<>>) =>
                   SearchFilter(row, search_text)
            /\ ConfidenceFilter(row, min_confidence, max_confidence)
    IN  OffsetLimit(OrderByCreatedDesc(s, {id \in DOMAIN s : Matches(s[id])}),
                    skip, limit)

\* GET /statistics over one state of the table.
Statistics(s) ==
    [total |-> GetPredictionsCount(s),
     rfdetr |-> GetPredictionsByModel(s, "rfdetr"),
     yolo |-> GetPredictionsByModel(s, "yolo"),
     both |-> GetPredictionsByModel(s, "both")]

\* The duplicate queries of the three predict endpoints: the ids of the rows
\* the filter matches (.first() returns one of them).
DuplicateQueryRfdetr(s, image_hash, confidence_threshold) ==
    {id \in DOMAIN s : /\ s[id].image_hash = image_hash
                       /\ s[id].model = "rfdetr"
                       /\ s[id].rfdetr_threshold = confidence_threshold}

DuplicateQueryYolo(s, image_hash, confidence_threshold) ==
    {id \in DOMAIN s : /\ s[id].image_hash = image_hash
                       /\ s[id].model = "yolo"
                       /\ s[id].yolo_threshold = confidence_threshold}

DuplicateQueryBoth(s, image_hash, rfdetr_threshold, yolo_threshold) ==
    {id \in DOMAIN s : /\ s[id].image_hash = image_hash
                       /\ s[id].model = "both"
                       /\ s[id].rfdetr_threshold = rfdetr_threshold
                       /\ s[id].yolo_threshold = yolo_threshold}

\* DuplicateQuery with one more filter, Prediction.user_id == current_user.id.
DuplicateQueryOwned(s, in, image_hash) ==
    {id \in (CASE in.endpoint = "rfdetr" ->
                     DuplicateQueryRfdetr(s, image_hash, in.confidence_threshold)
                [] in.endpoint = "yolo" ->
                     DuplicateQueryYolo(s, image_hash, in.confidence_threshold)
                [] OTHER ->
                     DuplicateQueryBoth(s, image_hash, in.rfdetr_confidence_threshold,
                                        in.yolo_confidence_threshold)) :
        s[id].user_id = in.user}

\* The duplicate query of the endpoint the input was sent to.
DuplicateQuery(s, in, image_hash) ==
    CASE in.endpoint = "rfdetr" ->
             DuplicateQueryRfdetr(s, image_hash, in.confidence_threshold)
      [] in.endpoint = "yolo" ->
             DuplicateQueryYolo(s, image_hash, in.confidence_threshold)
      [] OTHER ->
             DuplicateQueryBoth(s, image_hash, in.rfdetr_confidence_threshold,
                                in.yolo_confidence_threshold)

\* The row each endpoint hands to create_prediction.
NewRowRfdetr(id, in, results, image_hash, now) ==
    Prediction(id, in.user, "rfdetr", ImageToBase64(in.content), image_hash,
               results["rfdetr"], results["rfdetr"].confidence, Null, Null,
               in.confidence_threshold, in.confidence_threshold, Null,
               in.comment, now)

NewRowYolo(id, in, results, image_hash, now) ==
    Prediction(id, in.user, "yolo", ImageToBase64(in.content), image_hash,
               results["yolo"], results["yolo"].confidence, Null, Null,
               in.confidence_threshold, Null, in.confidence_threshold,
               in.comment, now)

\* NewRowBoth with the two thresholds passed in each other's place.
NewRowBothSwapped(id, in, results, image_hash, now) ==
    Prediction(id, in.user, "both", ImageToBase64(in.content), image_hash,
               results, Null, results["rfdetr"].confidence,
               results["yolo"].confidence, Null,
               in.yolo_confidence_threshold, in.rfdetr_confidence_threshold,
               in.comment, now)

NewRowBoth(id, in, results, image_hash, now) ==
    Prediction(id, in.user, "both", ImageToBase64(in.content), image_hash,
               results, Null, results["rfdetr"].confidence,
               results["yolo"].confidence, Null,
               in.rfdetr_confidence_threshold, in.yolo_confidence_threshold,
               in.comment, now)

NewRow(id, in, results, image_hash, now) ==
    CASE in.endpoint = "rfdetr" -> NewRowRfdetr(id, in, results, image_hash, now)
      [] in.endpoint = "yolo" -> NewRowYolo(id, in, results, image_hash, now)
      [] OTHER -> NewRowBoth(id, in, results, image_hash, now)

\* The dict the history endpoints return for a row.
PredictionDict(row) == row

(***************************************************************************)
(* The state machine                                                       *)
(***************************************************************************)

\* The application starts on an empty predictions table (create_tables).
Init ==
    /\ store = <<>>
    /\ nextId = 1
    /\ started = 0
    /\ pc = [r \in Handlers |-> "idle"]
    /\ req = [r \in Handlers |-> NoRequest]
    /\ loc = [r \in Handlers |-> NoLocals]
    /\ resp = [r \in Handlers |-> NoResponse]
    /\ tmp = {}
    /\ call = NoCall
    /\ users = UserIds

\* A handler that holds no request in flight takes the next one.
Free(r) == pc[r] \in {"idle", "done"}

Accept(r, request) ==
    /\ Free(r)
    /\ started < MaxRequests
    /\ started' = started + 1
    /\ req' = [req EXCEPT ![r] = request]
    /\ loc' = [loc EXCEPT ![r] = NoLocals]

\* The handler answers: its response is set and it holds no request in flight.
Answer(r, response) ==
    /\ resp' = [resp EXCEPT ![r] = response]
    /\ pc' = [pc EXCEPT ![r] = "done"]

\* `except Exception as e: raise HTTPException(status_code=500, ...)` of the
\* predict endpoints.  HTTPException is an Exception, so the status raised
\* inside the try block is replaced by 500 as well.
PredictFailure(status) == Response(500, FALSE, Null, Null, <<>>)

\* HistoryFailure without the `except HTTPException: raise` clause: the
\* generic handler turns the status into 500.
HistoryFailureWrapped(status) == Response(500, FALSE, Null, Null, <<>>)

\* `except HTTPException: raise` of the history endpoints: the status raised
\* inside the try block is the status the client receives.
HistoryFailure(status) == Response(status, FALSE, Null, Null, <<>>)

\* A client posts an image to /predict/rfdetr, /predict/yolo or /predict/both.
PredictStart(r, in) ==
    /\ Accept(r, Request("predict", in, Null, NullText))
    /\ pc' = [pc EXCEPT ![r] = "validate"]
    /\ resp' = [resp EXCEPT ![r] = NoResponse]
    /\ UNCHANGED <<store, nextId, tmp>>

\* validate_image_file(image)
PredictValidate(r) ==
    /\ pc[r] = "validate"
    /\ LET status == ValidateImageFile(req[r].in.upload)
       IN  IF status = 0
           THEN /\ pc' = [pc EXCEPT ![r] = "save_tmp"]
                /\ UNCHANGED resp
           ELSE Answer(r, PredictFailure(status))
    /\ UNCHANGED <<store, nextId, started, req, loc, tmp>>

\* PredictSaveTmp with the inference call moved behind the duplicate check:
\* the endpoint hashes the file next.
PredictSaveTmpThenHash(r) ==
    /\ pc[r] = "save_tmp"
    /\ tmp' = tmp \cup {r}
    /\ pc' = [pc EXCEPT ![r] = "hash"]
    /\ UNCHANGED <<store, nextId, started, req, loc, resp>>

\* with tempfile.NamedTemporaryFile(delete=False, ...): write the upload
PredictSaveTmp(r) ==
    /\ pc[r] = "save_tmp"
    /\ tmp' = tmp \cup {r}
    /\ pc' = [pc EXCEPT ![r] = IF req[r].in.endpoint = "yolo"
                               THEN "infer_yolo" ELSE "infer_rfdetr"]
    /\ UNCHANGED <<store, nextId, started, req, loc, resp>>

\* AfterInference of an endpoint that runs one detector whatever its
\* selector: /predict/both goes on to the hash after predict_rfdetr.
AfterInferenceFirstOnly(endpoint, detector) == "hash"

\* Where the endpoint goes once the named detector has returned.
AfterInference(endpoint, detector) ==
    IF endpoint = "both" /\ detector = "rfdetr" THEN "infer_yolo" ELSE "hash"

\* ml_service.predict_rfdetr(...) returns, or raises (the finally clause
\* unlinks the temporary file and the endpoint answers 500).
PredictInferRfdetr(r) ==
    /\ pc[r] = "infer_rfdetr"
    /\ LET in == req[r].in
           threshold == IF in.endpoint = "both"
                        THEN in.rfdetr_confidence_threshold
                        ELSE in.confidence_threshold
       IN  \/ /\ loc' = [loc EXCEPT ![r].results =
                            @ @@ ("rfdetr" :> MLPredictRfdetr(in.content, threshold))]
              /\ pc' = [pc EXCEPT ![r] = AfterInference(in.endpoint, "rfdetr")]
              /\ UNCHANGED <<resp, tmp>>
           \/ /\ Answer(r, PredictFailure(500))
              /\ tmp' = tmp \ {r}
              /\ UNCHANGED loc
    /\ UNCHANGED <<store, nextId, started, req>>

\* ml_service.predict_yolo(...) returns, or raises.
PredictInferYolo(r) ==
    /\ pc[r] = "infer_yolo"
    /\ LET in == req[r].in
           threshold == IF in.endpoint = "both"
                        THEN in.yolo_confidence_threshold
                        ELSE in.confidence_threshold
       IN  \/ /\ loc' = [loc EXCEPT ![r].results =
                            @ @@ ("yolo" :> MLPredictYolo(in.content, threshold))]
              /\ pc' = [pc EXCEPT ![r] = AfterInference(in.endpoint, "yolo")]
              /\ UNCHANGED <<resp, tmp>>
           \/ /\ Answer(r, PredictFailure(500))
              /\ tmp' = tmp \ {r}
              /\ UNCHANGED loc
    /\ UNCHANGED <<store, nextId, started, req>>

\* PredictHash with the duplicate check left out: the endpoint inserts next.
PredictHashThenInsert(r) ==
    /\ pc[r] = "hash"
    /\ loc' = [loc EXCEPT ![r].image_hash = GenerateImageHash(req[r].in.content)]
    /\ pc' = [pc EXCEPT ![r] = "insert"]
    /\ UNCHANGED <<store, nextId, started, req, resp, tmp>>

\* image_base64 = image_to_base64(...); image_hash = generate_image_hash(...)
PredictHash(r) ==
    /\ pc[r] = "hash"
    /\ loc' = [loc EXCEPT ![r].image_hash = GenerateImageHash(req[r].in.content)]
    /\ pc' = [pc EXCEPT ![r] = "dup_check"]
    /\ UNCHANGED <<store, nextId, started, req, resp, tmp>>

\* PredictDupCheck with the early return lost: the lookup runs and the
\* endpoint goes on to the insert whatever it found.
PredictDupCheckNoReturn(r) ==
    /\ pc[r] = "dup_check"
    /\ pc' = [pc EXCEPT ![r] = "insert"]
    /\ loc' = [loc EXCEPT ![r].dup_done = TRUE]
    /\ UNCHANGED <<store, nextId, started, req, resp, tmp>>

\* duplicate = duplicate_query.first(); if duplicate: return the duplicate
\* response (the finally clause unlinks the temporary file).
PredictDupCheck(r) ==
    /\ pc[r] = "dup_check"
    /\ LET found == DuplicateQuery(store, req[r].in, loc[r].image_hash)
       IN  IF found # {}
           THEN /\ \E duplicate \in found :
                      Answer(r, Response(200, TRUE, duplicate, Null, <<>>))
                /\ tmp' = tmp \ {r}
           ELSE /\ pc' = [pc EXCEPT ![r] = "insert"]
                /\ UNCHANGED <<resp, tmp>>
    /\ loc' = [loc EXCEPT ![r].dup_done = TRUE]
    /\ UNCHANGED <<store, nextId, started, req>>

\* prediction = PredictionCRUD.create_prediction(...); return the results
\* with prediction_id (the finally clause unlinks the temporary file).  The
\* row's user_id refers to users.id.  When the owner's row is gone, a database
\* that enforces the foreign key (PostgreSQL) rejects the insert and the
\* endpoint answers 500; one that does not (SQLite, where foreign keys are off
\* unless a connection switches them on, and database.py does not) stores the
\* row.
PredictInsert(r) ==
    /\ pc[r] = "insert"
    /\ \/ /\ store' = CreatePrediction(store,
                    NewRow(nextId, req[r].in, loc[r].results, loc[r].image_hash, nextId))
          /\ nextId' = nextId + 1
          /\ Answer(r, Response(200, FALSE, Null, nextId, <<>>))
       \/ /\ req[r].in.user \notin users
          /\ Answer(r, PredictFailure(500))
          /\ UNCHANGED <<store, nextId>>
    /\ tmp' = tmp \ {r}
    /\ UNCHANGED <<started, req, loc>>

\* GET /predictions/{prediction_id}
GetPredictionByIdEndpoint(r, prediction_id) ==
    /\ Accept(r, Request("get", NoInput, prediction_id, NullText))
    /\ LET prediction == GetPredictionById(store, prediction_id)
       IN  IF prediction = <<>>
           THEN Answer(r, HistoryFailure(404))
           ELSE Answer(r, Response(200, FALSE, Null, Null,
                                   <<PredictionDict(prediction[1])>>))
    /\ UNCHANGED <<store, nextId, tmp>>

\* PUT /predictions/{prediction_id}/comment
UpdatePredictionCommentEndpoint(r, prediction_id, comment) ==
    /\ Accept(r, Request("update", NoInput, prediction_id, comment))
    /\ store' = UpdatePredictionComment(store, prediction_id, comment)
    /\ LET prediction == GetPredictionById(store', prediction_id)
       IN  IF prediction = <<>>
           THEN Answer(r, HistoryFailure(404))
           ELSE Answer(r, Response(200, FALSE, Null, Null,
                                   <<PredictionDict(prediction[1])>>))
    /\ UNCHANGED <<nextId, tmp>>

\* DELETE /predictions/{prediction_id}
DeletePredictionEndpoint(r, prediction_id) ==
    /\ Accept(r, Request("delete", NoInput, prediction_id, NullText))
    /\ store' = DeletePrediction(store, prediction_id)
    /\ IF prediction_id \in DOMAIN store
       THEN Answer(r, Response(200, FALSE, Null, Null, <<>>))
       ELSE Answer(r, HistoryFailure(404))
    /\ UNCHANGED <<nextId, tmp>>

\* ValidateQueryParams without le=1000 on limit.
ValidateQueryParamsNoCap(q) ==
    IF /\ q.skip >= 0
       /\ q.limit >= 1
       /\ q.min_confidence # Null => (q.min_confidence >= 0 /\ q.min_confidence <= 100)
       /\ q.max_confidence # Null => (q.max_confidence >= 0 /\ q.max_confidence <= 100)
    THEN 0 ELSE 422

\* The Query(...) declarations of get_predictions: 0 when every parameter is
\* within its declared range, else the status the framework answers with
\* before the endpoint function is entered.
ValidateQueryParams(q) ==
    IF /\ q.skip >= 0
       /\ q.limit >= 1 /\ q.limit <= 1000
       /\ q.min_confidence # Null => (q.min_confidence >= 0 /\ q.min_confidence <= 100)
       /\ q.max_confidence # Null => (q.max_confidence >= 0 /\ q.max_confidence <= 100)
    THEN 0 ELSE 422

\* The JSON content get_predictions returns for a page.
PredictionsContent(page, q) ==
    [predictions |-> [k \in 1..Len(page) |-> PredictionDict(page[k])],
     total |-> Len(page), skip |-> q.skip, limit |-> q.limit]

\* GET /predictions
GetPredictionsEndpoint(r, q) ==
    /\ Accept(r, Request("query", q, Null, NullText))
    /\ IF ValidateQueryParams(q) # 0
       THEN Answer(r, Response(ValidateQueryParams(q), FALSE, Null, Null, <<>>))
       ELSE Answer(r, Response(200, FALSE, Null, Null,
                <<PredictionsContent(
                    GetPredictions(store, q.skip, q.limit, q.user_id, q.model,
                                   q.search_text, q.min_confidence, q.max_confidence),
                    q)>>))
    /\ UNCHANGED <<store, nextId, tmp>>

\* The comments of the sample predictions: "SR", "SY", "Sb".
SampleComment(model) ==
    CASE model = "rfdetr" -> <<83, 82>>
      [] model = "yolo" -> <<83, 89>>
      [] OTHER -> <<83, 98>>

\* The results of a sample prediction: its list of detections.
SampleDetections(confidences) ==
    [detections |-> [i \in 1..Len(confidences) |->
                        [class |-> "shelf", confidence |-> confidences[i]]]]

\* sample_predictions of DB/init_db.py as the rows the script adds: no
\* image_hash and no thresholds are given, so these columns are NULL.
SamplePredictions(first_id, first_user) ==
    << Prediction(first_id, first_user, "rfdetr", ImageToBase64("sample"), NoHash,
                  SampleDetections(<<95, 87>>), 95, Null, Null, Null, Null, Null,
                  SampleComment("rfdetr"), first_id),
       Prediction(first_id + 1, first_user, "yolo", ImageToBase64("sample"), NoHash,
                  SampleDetections(<<92, 78>>), 92, Null, Null, Null, Null, Null,
                  SampleComment("yolo"), first_id + 1),
       Prediction(first_id + 2, first_user, "both", ImageToBase64("sample"), NoHash,
                  [rfdetr |-> SampleDetections(<<88>>), yolo |-> SampleDetections(<<85>>)],
                  Null, 88, 85, Null, Null, Null,
                  SampleComment("both"), first_id + 2) >>

\* python -m DB.init_db on a database that holds the default users: the
\* sample predictions are added for the first user and committed together.
InitDatabase(first_user) ==
    /\ started < MaxRequests
    /\ started' = started + 1
    /\ LET rows == SamplePredictions(nextId, first_user)
       IN  store' = store @@ [id \in {rows[k].id : k \in 1..Len(rows)} |->
                                 rows[id - nextId + 1]]
    /\ nextId' = nextId + 3
    /\ UNCHANGED <<pc, req, loc, resp, tmp>>

\* The ids a client may name: every id issued so far and one never issued.
KnownIds == 1..nextId

\* The users db.query(User).first() may return.
FirstUsers == {"u1", "u2"}

Next ==
    \/ \E r \in Handlers, in \in PredictInputs : PredictStart(r, in) /\ UNCHANGED <<call, users>>
    \/ \E r \in Handlers : PredictValidate(r) /\ UNCHANGED <<call, users>>
    \/ \E r \in Handlers : PredictSaveTmp(r) /\ UNCHANGED <<call, users>>
    \/ \E r \in Handlers : PredictInferRfdetr(r) /\ UNCHANGED <<call, users>>
    \/ \E r \in Handlers : PredictInferYolo(r) /\ UNCHANGED <<call, users>>
    \/ \E r \in Handlers : PredictHash(r) /\ UNCHANGED <<call, users>>
    \/ \E r \in Handlers : PredictDupCheck(r) /\ UNCHANGED <<call, users>>
    \/ \E r \in Handlers : PredictInsert(r) /\ UNCHANGED <<call, users>>
    \/ \E r \in Handlers, id \in KnownIds :
           GetPredictionByIdEndpoint(r, id) /\ UNCHANGED <<call, users>>
    \/ \E r \in Handlers, id \in KnownIds :
           UpdatePredictionCommentEndpoint(r, id, TextAb) /\ UNCHANGED <<call, users>>
    \/ \E r \in Handlers, id \in KnownIds :
           DeletePredictionEndpoint(r, id) /\ UNCHANGED <<call, users>>
    \/ \E r \in Handlers, q \in QueryInputs :
           GetPredictionsEndpoint(r, q) /\ UNCHANGED <<call, users>>
    \/ \E first_user \in FirstUsers : InitDatabase(first_user) /\ UNCHANGED <<call, users>>

Spec == Init /\ [][Next]_vars

(***************************************************************************)
(* The functions of ml_service.py and crud.py called on their own          *)
(***************************************************************************)

\* The most detections a detector returns for one image.
MaxDetections == 2

\* What model.predict may return: up to MaxDetections confidences.
RawOutputs ==
    UNION {[1..n -> {20, 40, 90}] : n \in 0..MaxDetections}

\* The confidence thresholds of the calls.
Thresholds == {10, 40, 50}

\* The boxes a detector's model may report, as xyxy: one with x1 < x2 and
\* y1 < y2, one of no width (x1 = x2) and one with y1 > y2.
BoxesXyxy == {<<0, 0, 5, 5>>, <<5, 0, 5, 5>>, <<0, 5, 5, 0>>}

\* What model.predict may return when the boxes are looked at: up to
\* MaxDetections detections, each a box and a confidence.
RawBoxOutputs ==
    UNION {[1..n -> [xyxy : BoxesXyxy, confidence : {20, 90}]] : n \in 0..MaxDetections}

\* MLService.predict_rfdetr with the boxes of its detections: xyxy and
\* confidence are masked by the threshold, and every entry that is left is
\* listed with its xyxy as the model gave it.
PredictRfdetrXyxy(raw, confidence_threshold) ==
    LET kept == SelectSeq(raw, LAMBDA d : AtLeast(confidence_threshold, d.confidence))
    IN  [detections |-> [i \in 1..Len(kept) |->
                            [xyxy |-> kept[i].xyxy, confidence |-> kept[i].confidence,
                             class_id |-> 0, class_name |-> "item"]],
         confidence |-> AvgConfidence([i \in 1..Len(kept) |-> kept[i].confidence]),
         model |-> "rfdetr"]

\* MLService.predict_yolo with the boxes of its detections: every box of the
\* backend's result is listed with xyxy[i].tolist().
PredictYoloXyxy(raw, confidence_threshold) ==
    [detections |-> [i \in 1..Len(raw) |->
                        [xyxy |-> raw[i].xyxy, confidence |-> raw[i].confidence,
                         class_id |-> 0, class_name |-> "shelf"]],
     confidence |-> AvgConfidence([i \in 1..Len(raw) |-> raw[i].confidence]),
     model |-> "yolo"]

\* Keyword arguments of create_prediction; what is not given is None.
CreateArgs(model, results, confidence, rfdetr_confidence, yolo_confidence, confidence_threshold, rfdetr_threshold, yolo_threshold) ==
    [model |-> model, results |-> results, user_id |-> "u1",
     image_base64 |-> ImageToBase64("imgA"), image_hash |-> GenerateImageHash("imgA"),
     confidence |-> confidence, rfdetr_confidence |-> rfdetr_confidence,
     yolo_confidence |-> yolo_confidence,
     confidence_threshold |-> confidence_threshold,
     rfdetr_threshold |-> rfdetr_threshold, yolo_threshold |-> yolo_threshold,
     comment |-> NullText]

\* The records create_prediction is called with: the three the endpoints
\* build, and 'both' / 'rfdetr' records with a result or a threshold too
\* few or too many.
CreateCalls ==
    LET rf == MLPredictRfdetr("imgA", 10)
        yo == MLPredictYolo("imgA", 40)
    IN  { CreateArgs("rfdetr", rf, rf.confidence, Null, Null, 10, 10, Null),
          CreateArgs("yolo", yo, yo.confidence, Null, Null, 40, Null, 40),
          CreateArgs("both", [rfdetr |-> rf, yolo |-> yo], Null, rf.confidence,
                     yo.confidence, Null, 10, 40),
          CreateArgs("both", [rfdetr |-> rf], Null, rf.confidence, Null, Null, 10, 40),
          CreateArgs("both", [rfdetr |-> rf, yolo |-> yo], Null, rf.confidence,
                     yo.confidence, Null, 10, Null),
          CreateArgs("both", [yolo |-> yo], Null, Null, yo.confidence, Null, Null, 40),
          CreateArgs("rfdetr", [rfdetr |-> rf, yolo |-> yo], rf.confidence, Null, Null,
                     10, 10, 40),
          CreateArgs("rfdetr", rf, rf.confidence, Null, Null, Null, Null, Null) }

\* The calls, before they are made.
PendingCalls ==
    {Call("predict_rfdetr", <<raw, t>>, <<>>) : raw \in RawOutputs, t \in Thresholds}
    \cup {Call("predict_yolo", <<raw, t>>, <<>>) : raw \in RawOutputs, t \in Thresholds}
    \cup {Call("predict_rfdetr_xyxy", <<raw, t>>, <<>>) :
              raw \in RawBoxOutputs, t \in Thresholds}
    \cup {Call("predict_yolo_xyxy", <<raw, t>>, <<>>) :
              raw \in RawBoxOutputs, t \in Thresholds}
    \cup {Call("create_prediction", <<args>>, <<>>) : args \in CreateCalls}

\* One function is about to be called on an empty table.
CallInit ==
    /\ store = <<>>
    /\ nextId = 1
    /\ started = 0
    /\ pc = [r \in Handlers |-> "idle"]
    /\ req = [r \in Handlers |-> NoRequest]
    /\ loc = [r \in Handlers |-> NoLocals]
    /\ resp = [r \in Handlers |-> NoResponse]
    /\ tmp = {}
    /\ call \in PendingCalls
    /\ users = UserIds

\* MLService.predict_rfdetr returns for the raw detections of its model.
CallPredictRfdetr ==
    /\ call.op = "predict_rfdetr"
    /\ call.out = <<>>
    /\ call' = [call EXCEPT !.out = <<FilterRfdetrDetections(call.args[1], call.args[2])>>]
    /\ UNCHANGED <<store, nextId, started, pc, req, loc, resp, tmp, users>>

\* MLService.predict_yolo returns for the boxes of its backend.
CallPredictYolo ==
    /\ call.op = "predict_yolo"
    /\ call.out = <<>>
    /\ call' = [call EXCEPT !.out = <<ConvertYoloResults(call.args[1], call.args[2])>>]
    /\ UNCHANGED <<store, nextId, started, pc, req, loc, resp, tmp, users>>

\* MLService.predict_rfdetr returns for raw detections with their boxes.
CallPredictRfdetrXyxy ==
    /\ call.op = "predict_rfdetr_xyxy"
    /\ call.out = <<>>
    /\ call' = [call EXCEPT !.out = <<PredictRfdetrXyxy(call.args[1], call.args[2])>>]
    /\ UNCHANGED <<store, nextId, started, pc, req, loc, resp, tmp, users>>

\* MLService.predict_yolo returns for the backend's boxes with their xyxy.
CallPredictYoloXyxy ==
    /\ call.op = "predict_yolo_xyxy"
    /\ call.out = <<>>
    /\ call' = [call EXCEPT !.out = <<PredictYoloXyxy(call.args[1], call.args[2])>>]
    /\ UNCHANGED <<store, nextId, started, pc, req, loc, resp, tmp, users>>

\* PredictionCRUD.create_prediction builds the row from its arguments, adds
\* it, commits and returns it.
CallCreatePrediction ==
    /\ call.op = "create_prediction"
    /\ call.out = <<>>
    /\ LET a == call.args[1]
           prediction == Prediction(nextId, a.user_id, a.model, a.image_base64,
                             a.image_hash, a.results, a.confidence, a.rfdetr_confidence,
                             a.yolo_confidence, a.confidence_threshold,
                             a.rfdetr_threshold, a.yolo_threshold, a.comment, nextId)
       IN  /\ store' = CreatePrediction(store, prediction)
           /\ call' = [call EXCEPT !.out = <<prediction>>]
    /\ nextId' = nextId + 1
    /\ UNCHANGED <<started, pc, req, loc, resp, tmp, users>>

CallNext ==
    \/ CallPredictRfdetr
    \/ CallPredictYolo
    \/ CallPredictRfdetrXyxy
    \/ CallPredictYoloXyxy
    \/ CallCreatePrediction

SpecCalls == CallInit /\ [][CallNext]_vars

(***************************************************************************)
(* The service with check-duplicate, statistics and delete-user            *)
(***************************************************************************)

\* get_current_user: the bearer token is the id of a row of the users table.
Authenticated(token) == token \in users

\* The query parameters of GET /check-duplicate; an absent threshold is Null.
CheckDuplicateInput(image_hash, model, rfdetr_threshold, yolo_threshold) ==
    [image_hash |-> image_hash, model |-> model,
     rfdetr_threshold |-> rfdetr_threshold, yolo_threshold |-> yolo_threshold]

\* The duplicate checks the clients send.
CheckDuplicateInputs ==
    { CheckDuplicateInput(GenerateImageHash("imgA"), "rfdetr", 10, Null),
      CheckDuplicateInput(GenerateImageHash("imgA"), "rfdetr", 40, Null),
      CheckDuplicateInput(GenerateImageHash("imgA"), "yolo", Null, 40),
      CheckDuplicateInput(GenerateImageHash("imgB"), "both", 10, 40),
      CheckDuplicateInput(GenerateImageHash("imgB"), "both", 10, 10),
      CheckDuplicateInput(GenerateImageHash("imgB"), "both", Null, 40) }

\* The query check_duplicate builds: the ids of the rows it matches.  The
\* comparison with an absent threshold is `IS NULL`; for 'both' a threshold
\* that was not sent is not compared at all.
CheckDuplicateQuery(s, image_hash, model, rfdetr_threshold, yolo_threshold) ==
    {id \in DOMAIN s :
        /\ s[id].image_hash = image_hash
        /\ s[id].model = model
        /\ model = "rfdetr" => s[id].rfdetr_threshold = rfdetr_threshold
        /\ model = "yolo" => s[id].yolo_threshold = yolo_threshold
        /\ (model = "both" /\ rfdetr_threshold # Null) =>
               s[id].rfdetr_threshold = rfdetr_threshold
        /\ (model = "both" /\ yolo_threshold # Null) =>
               s[id].yolo_threshold = yolo_threshold}

\* GET /check-duplicate
CheckDuplicateEndpoint(r, q) ==
    /\ Accept(r, Request("check_duplicate", q, Null, NullText))
    /\ LET found == CheckDuplicateQuery(store, q.image_hash, q.model,
                                        q.rfdetr_threshold, q.yolo_threshold)
       IN  IF found # {}
           THEN \E duplicate \in found :
                    Answer(r, Response(200, TRUE, duplicate, Null, <<>>))
           ELSE Answer(r, Response(200, FALSE, Null, Null, <<>>))
    /\ UNCHANGED <<store, nextId, tmp>>

\* A request whose token names no row of the users table: get_current_user
\* raises 401 before the endpoint function is entered.
Unauthenticated(r, token) ==
    /\ ~Authenticated(token)
    /\ Accept(r, Request("unauthenticated", NoInput, Null, NullText))
    /\ Answer(r, Response(401, FALSE, Null, Null, <<>>))
    /\ UNCHANGED <<store, nextId, tmp>>

\* image_to_base64, generate_image_hash, the duplicate query or
\* create_prediction raises (the file cannot be read, the database call
\* fails): the finally clause unlinks the temporary file and the endpoint
\* answers 500.
PredictRaiseKeepsTmp(r) ==
    /\ pc[r] \in {"hash", "dup_check", "insert"}
    /\ Answer(r, PredictFailure(500))
    /\ UNCHANGED <<store, nextId, started, req, loc, tmp>>

PredictRaise(r) ==
    /\ pc[r] \in {"hash", "dup_check", "insert"}
    /\ Answer(r, PredictFailure(500))
    /\ tmp' = tmp \ {r}
    /\ UNCHANGED <<store, nextId, started, req, loc>>

\* GET /statistics is entered.
GetStatisticsStart(r) ==
    /\ Accept(r, Request("statistics", NoInput, Null, NullText))
    /\ pc' = [pc EXCEPT ![r] = "count_total"]
    /\ resp' = [resp EXCEPT ![r] = NoResponse]
    /\ UNCHANGED <<store, nextId, tmp>>

\* One count query of get_statistics: the handler keeps the number under
\* `key` and goes on to the next query.
GetStatisticsCount(r, at, key, count, next) ==
    /\ pc[r] = at
    /\ loc' = [loc EXCEPT ![r].results = @ @@ (key :> count)]
    /\ pc' = [pc EXCEPT ![r] = next]
    /\ UNCHANGED <<store, nextId, started, req, resp, tmp>>

\* total_predictions = PredictionCRUD.get_predictions_count(db)
GetStatisticsTotal(r) ==
    GetStatisticsCount(r, "count_total", "total", GetPredictionsCount(store), "count_rfdetr")

\* rfdetr_count = PredictionCRUD.get_predictions_by_model(db, "rfdetr")
GetStatisticsRfdetr(r) ==
    GetStatisticsCount(r, "count_rfdetr", "rfdetr", GetPredictionsByModel(store, "rfdetr"), "count_yolo")

\* yolo_count = PredictionCRUD.get_predictions_by_model(db, "yolo")
GetStatisticsYolo(r) ==
    GetStatisticsCount(r, "count_yolo", "yolo", GetPredictionsByModel(store, "yolo"), "count_both")

\* both_count = PredictionCRUD.get_predictions_by_model(db, "both"); the
\* endpoint returns the four numbers.
GetStatisticsBoth(r) ==
    /\ pc[r] = "count_both"
    /\ LET counts == loc[r].results
       IN  Answer(r, Response(200, FALSE, Null, Null,
                     <<[total |-> counts["total"], rfdetr |-> counts["rfdetr"],
                        yolo |-> counts["yolo"],
                        both |-> GetPredictionsByModel(store, "both")]>>))
    /\ UNCHANGED <<store, nextId, started, req, loc, tmp>>

\* The path parameter and the caller of DELETE /users/{user_id}.
DeleteUserInput(current_user, user_id) ==
    [current_user |-> current_user, user_id |-> user_id]

\* The user ids a client may name: the users of the table and one that
\* never was in it.
UserIdParams == UserIds \cup {"u3"}

\* The rows a user's deletion leaves: `cascade="all, delete-orphan"` deletes
\* the user's predictions with the user.
DeleteUserCascade(s, user_id) ==
    [id \in {i \in DOMAIN s : s[i].user_id # user_id} |-> s[id]]

\* delete_user up to db.delete(user): 0 when the user is found and is not
\* the caller, else the status it raises.
DeleteUserLookup(current_user, user_id) ==
    IF user_id \notin users THEN 404
    ELSE IF user_id = current_user THEN 400
    ELSE 0

\* DELETE /users/{user_id}: get_current_user, UserCRUD.get_user_by_id and
\* the two checks.
DeleteUserStart(r, current_user, user_id) ==
    /\ Authenticated(current_user)
    /\ Accept(r, Request("delete_user", DeleteUserInput(current_user, user_id),
                         Null, NullText))
    /\ LET status == DeleteUserLookup(current_user, user_id)
       IN  IF status = 0
           THEN /\ pc' = [pc EXCEPT ![r] = "delete_user"]
                /\ resp' = [resp EXCEPT ![r] = NoResponse]
           ELSE Answer(r, HistoryFailure(status))
    /\ UNCHANGED <<store, nextId, tmp, users>>

\* db.delete(user); db.commit(): the user's predictions and the user are
\* deleted in one transaction, or the transaction fails (a prediction of the
\* user was inserted while it ran, the connection is lost) and the endpoint
\* answers 500.
DeleteUserCommit(r) ==
    /\ pc[r] = "delete_user"
    /\ \/ /\ store' = DeleteUserCascade(store, req[r].in.user_id)
          /\ users' = users \ {req[r].in.user_id}
          /\ Answer(r, Response(200, FALSE, Null, Null, <<>>))
       \/ /\ Answer(r, HistoryFailure(500))
          /\ UNCHANGED <<store, users>>
    /\ UNCHANGED <<nextId, started, req, loc, tmp>>

\* The predictions table as an earlier run of the service left it: empty,
\* or holding the row of one /predict/rfdetr request of "u2".
LeftTables ==
    LET in == PredictInput("rfdetr", "u2", "image", "imgA", 10, Null, Null, TextA)
    IN  { <<>>,
          CreatePrediction(<<>>,
              NewRow(1, in, "rfdetr" :> MLPredictRfdetr(in.content, 10),
                     GenerateImageHash(in.content), 1)) }

\* The service starts on a table an earlier run left.
AdminInit ==
    /\ store \in LeftTables
    /\ nextId = Cardinality(DOMAIN store) + 1
    /\ started = 0
    /\ pc = [r \in Handlers |-> "idle"]
    /\ req = [r \in Handlers |-> NoRequest]
    /\ loc = [r \in Handlers |-> NoLocals]
    /\ resp = [r \in Handlers |-> NoResponse]
    /\ tmp = {}
    /\ call = NoCall
    /\ users = UserIds

AdminNext ==
    \/ \E r \in Handlers, in \in PredictInputs :
           Authenticated(in.user) /\ PredictStart(r, in) /\ UNCHANGED <<call, users>>
    \/ \E r \in Handlers : PredictValidate(r) /\ UNCHANGED <<call, users>>
    \/ \E r \in Handlers : PredictSaveTmp(r) /\ UNCHANGED <<call, users>>
    \/ \E r \in Handlers : PredictInferRfdetr(r) /\ UNCHANGED <<call, users>>
    \/ \E r \in Handlers : PredictInferYolo(r) /\ UNCHANGED <<call, users>>
    \/ \E r \in Handlers : PredictHash(r) /\ UNCHANGED <<call, users>>
    \/ \E r \in Handlers : PredictDupCheck(r) /\ UNCHANGED <<call, users>>
    \/ \E r \in Handlers : PredictInsert(r) /\ UNCHANGED <<call, users>>
    \/ \E r \in Handlers : PredictRaise(r) /\ UNCHANGED <<call, users>>
    \/ \E r \in Handlers, token \in UserIds :
           Unauthenticated(r, token) /\ UNCHANGED <<call, users>>
    \/ \E r \in Handlers, id \in KnownIds :
           users # {} /\ DeletePredictionEndpoint(r, id) /\ UNCHANGED <<call, users>>
    \/ \E r \in Handlers, q \in CheckDuplicateInputs :
           users # {} /\ CheckDuplicateEndpoint(r, q) /\ UNCHANGED <<call, users>>
    \/ \E r \in Handlers :
           users # {} /\ GetStatisticsStart(r) /\ UNCHANGED <<call, users>>
    \/ \E r \in Handlers : GetStatisticsTotal(r) /\ UNCHANGED <<call, users>>
    \/ \E r \in Handlers : GetStatisticsRfdetr(r) /\ UNCHANGED <<call, users>>
    \/ \E r \in Handlers : GetStatisticsYolo(r) /\ UNCHANGED <<call, users>>
    \/ \E r \in Handlers : GetStatisticsBoth(r) /\ UNCHANGED <<call, users>>
    \/ \E r \in Handlers, current_user \in UserIds, user_id \in UserIdParams :
           DeleteUserStart(r, current_user, user_id) /\ UNCHANGED call
    \/ \E r \in Handlers : DeleteUserCommit(r) /\ UNCHANGED call

SpecAdmin == AdminInit /\ [][AdminNext]_vars

(***************************************************************************)
(* Properties                                                              *)
(***************************************************************************)

\* The handler r took this step.
Acted(r) ==
    \/ pc'[r] # pc[r]
    \/ req'[r] # req[r]
    \/ resp'[r] # resp[r]
    \/ loc'[r] # loc[r]

\* The detectors whose threshold belongs to a model selector's key.
KeyDetectors(model) ==
    CASE model = "rfdetr" -> {"rfdetr"}
      [] model = "yolo" -> {"yolo"}
      [] OTHER -> {"rfdetr", "yolo"}

\* Two rows agree on (image_hash, model selector, relevant threshold(s)).
SameKey(a, b) ==
    /\ a.image_hash = b.image_hash
    /\ a.model = b.model
    /\ "rfdetr" \in KeyDetectors(a.model) => a.rfdetr_threshold = b.rfdetr_threshold
    /\ "yolo" \in KeyDetectors(a.model) => a.yolo_threshold = b.yolo_threshold

\* The thresholds a predict request was sent with, per detector.
RequestThreshold(in, detector) ==
    IF in.endpoint = "both"
    THEN (IF detector = "rfdetr" THEN in.rfdetr_confidence_threshold
                                 ELSE in.yolo_confidence_threshold)
    ELSE in.confidence_threshold

\* The stored rows with the key of a predict request: the digest of its
\* bytes, its endpoint's selector and its threshold(s).
RowsWithKeyOf(s, in) ==
    {id \in DOMAIN s :
        /\ s[id].image_hash = GenerateImageHash(in.content)
        /\ s[id].model = in.endpoint
        /\ "rfdetr" \in KeyDetectors(in.endpoint) =>
               s[id].rfdetr_threshold = RequestThreshold(in, "rfdetr")
        /\ "yolo" \in KeyDetectors(in.endpoint) =>
               s[id].yolo_threshold = RequestThreshold(in, "yolo")}

\* Two predict requests carry the same bytes, selector and threshold(s).
SameRequestKey(a, b) ==
    /\ a.content = b.content
    /\ a.endpoint = b.endpoint
    /\ \A d \in KeyDetectors(a.endpoint) : RequestThreshold(a, d) = RequestThreshold(b, d)

\* The handler has answered a predict request with a new prediction_id.
StoredNew(r) ==
    /\ pc[r] = "done"
    /\ req[r].op = "predict"
    /\ resp[r].status = 200
    /\ ~resp[r].is_duplicate
    /\ resp[r].prediction_id # Null

\* The handler has answered a predict request with the duplicate response.
AnsweredDuplicate(r) ==
    /\ pc[r] = "done"
    /\ req[r].op = "predict"
    /\ resp[r].status = 200
    /\ resp[r].is_duplicate

\* C1: of two predict requests with identical bytes, selector and
\* threshold(s), at most one is answered with a new prediction_id whose row
\* is in the table next to the other's: one row is stored for the key and the
\* other request is answered as a duplicate.
C1_ConcurrentPredictsStoreOnce ==
    \A r1, r2 \in Handlers :
        (/\ r1 # r2
         /\ StoredNew(r1)
         /\ StoredNew(r2)
         /\ SameRequestKey(req[r1].in, req[r2].in))
        => ~(/\ resp[r1].prediction_id \in DOMAIN store
             /\ resp[r2].prediction_id \in DOMAIN store)

\* C2: no two distinct rows of the table agree on image_hash, model selector
\* and the threshold(s) relevant to the selector.
C2_DedupKeyUnique ==
    \A a, b \in DOMAIN store : a # b => ~SameKey(store[a], store[b])

\* C3: an insert that arrives when a row with the same key is already stored
\* is rejected by the table, and the request is answered with the duplicate
\* response naming a stored row with that key.
C3_RacingInsertAnsweredDuplicate ==
    [][\A r \in Handlers :
          (/\ pc[r] = "insert"
           /\ pc'[r] = "done"
           /\ RowsWithKeyOf(store, req[r].in) # {})
          => /\ store' = store
             /\ resp'[r].status = 200
             /\ resp'[r].is_duplicate
             /\ resp'[r].duplicate_id \in RowsWithKeyOf(store, req[r].in)]_vars

\* C4: when the duplicate lookup of a predict request finds a row with the
\* request's key, the request is answered at once with is_duplicate = true and
\* the id of such a row, and the table is left as it was.
C4_DuplicateShortCircuit ==
    [][\A r \in Handlers :
          (/\ pc[r] = "dup_check"
           /\ Acted(r)
           /\ RowsWithKeyOf(store, req[r].in) # {})
          => /\ store' = store
             /\ pc'[r] = "done"
             /\ resp'[r].status = 200
             /\ resp'[r].is_duplicate
             /\ resp'[r].prediction_id = Null
             /\ resp'[r].duplicate_id \in RowsWithKeyOf(store, req[r].in)]_vars

\* C4 witness: a predict request answered as the duplicate of a stored row
\* that another user's request created.
C4_Witness ==
    \E r \in Handlers :
        /\ AnsweredDuplicate(r)
        /\ resp[r].duplicate_id \in DOMAIN store
        /\ store[resp[r].duplicate_id].user_id # req[r].in.user

\* The handler holds a predict request sent to a single-model endpoint.
SingleModelPredict(r) ==
    req[r].op = "predict" /\ req[r].in.endpoint \in {"rfdetr", "yolo"}

\* The detector(s) the request's endpoint runs have returned normalized results.
InferenceDone(r) == DOMAIN loc[r].results = KeyDetectors(req[r].in.endpoint)

\* C5 as claimed: in a single-model predict request the detector is invoked
\* only after the duplicate lookup, and a request answered as a duplicate
\* never invoked it.
C5_LookupBeforeDetector ==
    \A r \in Handlers :
        SingleModelPredict(r) =>
            /\ loc[r].results # <<>> => loc[r].dup_done
            /\ AnsweredDuplicate(r) => loc[r].results = <<>>

\* C5 as amended: in a single-model predict request the detector has returned
\* before the content key is computed and before the duplicate lookup runs; a
\* request answered as a duplicate has run its detector and stored nothing.
C5_DetectorBeforeLookup ==
    \A r \in Handlers :
        SingleModelPredict(r) =>
            /\ loc[r].image_hash # NoHash => InferenceDone(r)
            /\ loc[r].dup_done => loc[r].image_hash = GenerateImageHash(req[r].in.content)
            /\ AnsweredDuplicate(r) =>
                   /\ InferenceDone(r)
                   /\ resp[r].prediction_id = Null

\* C5 witness: a single-model request answered as a duplicate after its
\* detector returned.
C5_Witness ==
    \E r \in Handlers :
        /\ SingleModelPredict(r)
        /\ AnsweredDuplicate(r)
        /\ InferenceDone(r)

\* C6: in every predict request (rfdetr, yolo, both) the duplicate check runs
\* only after every detector of the endpoint has returned its normalized
\* result, and the row is persisted only after the duplicate check of the
\* same request has run and found nothing.
C6_InferNormalizeCheckPersist ==
    \A r \in Handlers :
        req[r].op = "predict" =>
            /\ (pc[r] = "dup_check" \/ loc[r].dup_done) => InferenceDone(r)
            /\ pc[r] = "insert" => loc[r].dup_done
            /\ resp[r].prediction_id # Null =>
                   /\ loc[r].dup_done
                   /\ InferenceDone(r)
                   /\ ~resp[r].is_duplicate

\* C6 witness: a /predict/both request that has persisted its row.
C6_Witness ==
    \E r \in Handlers :
        /\ StoredNew(r)
        /\ req[r].in.endpoint = "both"
        /\ resp[r].prediction_id \in DOMAIN store
        /\ loc[r].dup_done

\* C7: a predict request that answers with a new prediction_id has added
\* exactly one row, under an id no row had, carrying the request's digest,
\* selector, threshold(s), owner and comment, and has changed no other row; a
\* predict request that answers anything else has left the table as it was.
C7_OneRowPerStoredPredict ==
    [][\A r \in Handlers :
          (/\ req[r].op = "predict"
           /\ pc[r] \notin {"idle", "done"}
           /\ pc'[r] = "done")
          => IF resp'[r].status = 200 /\ ~resp'[r].is_duplicate
             THEN LET id == resp'[r].prediction_id
                      in == req[r].in
                  IN  /\ id \notin DOMAIN store
                      /\ DOMAIN store' = DOMAIN store \cup {id}
                      /\ \A i \in DOMAIN store : store'[i] = store[i]
                      /\ store'[id].id = id
                      /\ id \in RowsWithKeyOf(store', in)
                      /\ \A d \in {"rfdetr", "yolo"} \ KeyDetectors(in.endpoint) :
                             (IF d = "rfdetr" THEN store'[id].rfdetr_threshold
                                              ELSE store'[id].yolo_threshold) = Null
                      /\ store'[id].user_id = in.user
                      /\ store'[id].comment = in.comment
             ELSE store' = store]_vars

\* C7 witness: two stored rows, each created by a predict request, one of
\* them with a comment, and a predict request that failed.
C7_Witness ==
    /\ \E r \in Handlers :
           /\ StoredNew(r)
           /\ resp[r].prediction_id \in DOMAIN store
           /\ store[resp[r].prediction_id].comment = TextA
    /\ \E r \in Handlers :
           /\ pc[r] = "done"
           /\ req[r].op = "predict"
           /\ resp[r].status = 500

\* C8: an update of an existing row's comment changes that row's comment
\* field and nothing else in the table, and whenever a stored row changes, it
\* changes in its comment only, by an update request naming it.
C8_UpdateChangesOnlyComment ==
    [][/\ \A r \in Handlers :
              (/\ Acted(r)
               /\ req'[r].op = "update"
               /\ req'[r].id \in DOMAIN store)
              => /\ resp'[r].status = 200
                 /\ DOMAIN store' = DOMAIN store
                 /\ \A i \in DOMAIN store \ {req'[r].id} : store'[i] = store[i]
                 /\ store'[req'[r].id] =
                        [store[req'[r].id] EXCEPT !.comment = req'[r].text]
                 /\ resp'[r].body = <<store'[req'[r].id]>>
       /\ \A i \in DOMAIN store \cap DOMAIN store' :
              store'[i] # store[i]
              => /\ store'[i] = [store[i] EXCEPT !.comment = store'[i].comment]
                 /\ started' = started + 1
                 /\ \E r \in Handlers :
                        /\ req'[r].op = "update"
                        /\ req'[r].id = i
                        /\ req'[r].text = store'[i].comment]_vars

\* C8 witness: an update answered 200 whose row now carries the new comment
\* next to another row that does not.
C8_Witness ==
    \E r \in Handlers :
        /\ pc[r] = "done"
        /\ req[r].op = "update"
        /\ resp[r].status = 200
        /\ req[r].id \in DOMAIN store
        /\ store[req[r].id].comment = TextAb
        /\ \E i \in DOMAIN store : store[i].comment # TextAb

\* The query requests the delete claim is read against.
QueryPages(s) ==
    { GetPredictions(s, skip, limit, user_id, model, search_text, lo, hi) :
        skip \in {0, 1}, limit \in {1, 100}, user_id \in {NullStr, "u1"},
        model \in {NullStr, "all", "rfdetr"}, search_text \in {NullText, TextA},
        lo \in {Null, 0}, hi \in {Null, 100} }

\* The ids that were stored once and are stored no more.
Deleted == (1..(nextId - 1)) \ DOMAIN store

\* C9: a delete of an existing row answers 200, removes that row and changes
\* no other; from then on the id is never stored again, a get of it answers
\* 404, no query page holds it and the statistics no longer count it.
C9_DeleteIsHard ==
    [][/\ \A r \in Handlers :
              (/\ Acted(r)
               /\ req'[r].op = "delete"
               /\ req'[r].id \in DOMAIN store)
              => LET id == req'[r].id
                 IN  /\ resp'[r].status = 200
                     /\ DOMAIN store' = DOMAIN store \ {id}
                     /\ \A i \in DOMAIN store' : store'[i] = store[i]
                     /\ \A page \in QueryPages(store') :
                            \A k \in 1..Len(page) : page[k].id # id
                     /\ Statistics(store').total = Statistics(store).total - 1
                     /\ Statistics(store').rfdetr + Statistics(store').yolo
                            + Statistics(store').both
                        = Statistics(store).rfdetr + Statistics(store).yolo
                            + Statistics(store).both - 1
       /\ \A id \in Deleted : id \notin DOMAIN store'
       /\ \A r \in Handlers :
              (/\ Acted(r)
               /\ req'[r].op = "get"
               /\ req'[r].id \in Deleted)
              => /\ resp'[r].status = 404
                 /\ resp'[r].body = <<>>]_vars

\* C9 witness: a get of a deleted id answered 404.
C9_Witness ==
    \E r \in Handlers :
        /\ pc[r] = "done"
        /\ req[r].op = "get"
        /\ req[r].id \in Deleted
        /\ resp[r].status = 404

\* C10: get, update and delete of an id that is not stored answer 404, not
\* 500, and leave the table as it was.
C10_MissingIdIsNotFound ==
    [][\A r \in Handlers :
          (/\ Acted(r)
           /\ req'[r].op \in {"get", "update", "delete"}
           /\ req'[r].id \notin DOMAIN store)
          => /\ resp'[r].status = 404
             /\ store' = store]_vars

\* C10 witness: an update and a delete of ids that are not stored, both
\* answered 404, while the table holds a row.
C10_Witness ==
    \E r1, r2 \in Handlers :
        /\ pc[r1] = "done" /\ req[r1].op = "update"
        /\ req[r1].id \notin DOMAIN store /\ resp[r1].status = 404
        /\ pc[r2] = "done" /\ req[r2].op = "delete"
        /\ req[r2].id \notin DOMAIN store /\ resp[r2].status = 404
        /\ store # <<>>

(***************************************************************************)
(* Properties of GET /predictions                                          *)
(***************************************************************************)

\* The handler r answered a query request in this step.
QueryStep(r) == Acted(r) /\ req'[r].op = "query"

\* The page of rows in a 200 response to a query.
PageOf(response) == response.body[1].predictions

\* The ids of the rows of a page.
IdsOf(page) == {page[k].id : k \in 1..Len(page)}

\* A page holds no row twice and runs from the newest row to the oldest.
NewestFirst(page) ==
    \A k, l \in 1..Len(page) : k < l => page[k].created_at > page[l].created_at

\* A page holds rows of the table s as they are stored.
RowsOf(page, s) ==
    \A k \in 1..Len(page) : page[k].id \in DOMAIN s /\ page[k] = s[page[k].id]

\* A limit no smaller than any table of the model, and the query with no
\* optional filter and no pagination cut.
WholeLimit == 1000
Unfiltered == QueryInput(0, WholeLimit, NullStr, NullStr, NullText, Null, Null)

\* get_predictions for a record of query parameters.
Query(s, q) ==
    GetPredictions(s, q.skip, q.limit, q.user_id, q.model, q.search_text,
                   q.min_confidence, q.max_confidence)

\* The query carries a confidence range and no other filter.
RangeOnly(q) ==
    /\ q.user_id = NullStr /\ q.model = NullStr /\ q.search_text = NullText
    /\ q.min_confidence # Null /\ q.max_confidence # Null

\* The stored single-detector rows whose confidence lies in [lo, hi].
SingleInRange(s, lo, hi) ==
    {id \in DOMAIN s : /\ s[id].model \in {"rfdetr", "yolo"}
                       /\ s[id].confidence # Null
                       /\ lo <= s[id].confidence /\ s[id].confidence <= hi}

\* The confidence bounds the range claims are read with.
RangeBounds == {0, 60, 80, 92, 95, 100}

\* The range-only query [lo, hi] over the table s returns the stored
\* single-detector rows in the range, newest first.
RangePageExact(s, lo, hi) ==
    LET page == Query(s, [Unfiltered EXCEPT !.min_confidence = lo, !.max_confidence = hi])
    IN  /\ IdsOf(page) = SingleInRange(s, lo, hi)
        /\ RowsOf(page, s)
        /\ NewestFirst(page)

\* C11: a query with a confidence range [min, max] and no other filter
\* returns exactly the stored single-detector rows whose confidence c
\* satisfies min <= c <= max, both bounds inclusive, newest first.
C11_RangeReturnsSingleInRange ==
    [][/\ \A r \in Handlers :
              (/\ QueryStep(r)
               /\ RangeOnly(req'[r].in)
               /\ ValidateQueryParams(req'[r].in) = 0
               /\ req'[r].in.skip = 0
               /\ req'[r].in.limit >= Cardinality(DOMAIN store))
              => LET q == req'[r].in
                     page == PageOf(resp'[r])
                 IN  /\ resp'[r].status = 200
                     /\ IdsOf(page) = SingleInRange(store, q.min_confidence, q.max_confidence)
                     /\ RowsOf(page, store)
                     /\ NewestFirst(page)
                     /\ resp'[r].body[1].total = Len(page)
       /\ store' # store =>
          \A lo, hi \in RangeBounds : RangePageExact(store', lo, hi)]_vars

\* C11 witness: a query for [0.8, 1.0] answered with the two single-detector
\* rows in the range while the table holds a single-detector row below it.
C11_Witness ==
    \E r \in Handlers :
        /\ pc[r] = "done"
        /\ req[r].op = "query"
        /\ RangeOnly(req[r].in)
        /\ req[r].in.min_confidence = 80
        /\ resp[r].status = 200
        /\ Len(PageOf(resp[r])) = 2
        /\ IdsOf(PageOf(resp[r])) = SingleInRange(store, 80, 100)
        /\ \E id \in DOMAIN store :
               store[id].model \in {"rfdetr", "yolo"} /\ store[id].confidence < 80

\* One of the two per-detector confidences of a 'both' row lies in [lo, hi].
EitherInRange(row, lo, hi) ==
    \/ row.rfdetr_confidence # Null
          /\ lo <= row.rfdetr_confidence /\ row.rfdetr_confidence <= hi
    \/ row.yolo_confidence # Null
          /\ lo <= row.yolo_confidence /\ row.yolo_confidence <= hi

\* C12: a query with a confidence range and no other filter, whose page is
\* large enough for the table, returns a 'both' row if and only if at least
\* one of the row's rfdetr_confidence and yolo_confidence lies in the range.
C12_BothMatchesByEitherConfidence ==
    [][\A r \in Handlers :
          (/\ QueryStep(r)
           /\ RangeOnly(req'[r].in)
           /\ resp'[r].status = 200
           /\ req'[r].in.skip = 0
           /\ req'[r].in.limit >= Cardinality(DOMAIN store))
          => \A id \in DOMAIN store :
                 store[id].model = "both"
                 => (id \in IdsOf(PageOf(resp'[r]))
                     <=> EitherInRange(store[id], req'[r].in.min_confidence,
                                       req'[r].in.max_confidence))]_vars

\* The pagination parameters are outside their permitted ranges.
BadPagination(q) == q.limit <= 0 \/ q.limit > 1000 \/ q.skip < 0

\* C13: a query with limit <= 0, limit > 1000 or offset < 0 is answered with
\* the invalid-parameter status, no page is computed and the table is left
\* alone; a query with 1 <= limit <= 1000 and offset >= 0 whose other
\* parameters are in range is answered 200 with a page.
C13_BadPaginationRejected ==
    [][/\ \A r \in Handlers :
              QueryStep(r)
              => /\ BadPagination(req'[r].in)
                    => /\ resp'[r].status = 422
                       /\ resp'[r].body = <<>>
                       /\ store' = store
                 /\ ~BadPagination(req'[r].in)
                    => /\ resp'[r].status = 200
                       /\ Len(resp'[r].body) = 1
       /\ \A skip \in {-2, -1, 0, 1}, limit \in {-1, 0, 1, 1000, 1001} :
              LET q == [Unfiltered EXCEPT !.skip = skip, !.limit = limit]
              IN  ValidateQueryParams(q) # 0 <=> BadPagination(q)]_vars

\* C13 witness: a query with limit = -1 and a query with offset = -1, both
\* answered 422 without a page, over a table that holds rows.
C13_Witness ==
    \E r1, r2 \in Handlers :
        /\ pc[r1] = "done" /\ req[r1].op = "query" /\ req[r1].in.limit = -1
        /\ resp[r1].status = 422 /\ resp[r1].body = <<>>
        /\ pc[r2] = "done" /\ req[r2].op = "query" /\ req[r2].in.skip = -1
        /\ resp[r2].status = 422 /\ resp[r2].body = <<>>
        /\ store # <<>>

\* C14: a query with min_confidence and max_confidence both given and
\* min_confidence > max_confidence is rejected: it is not answered 200 and
\* no page is returned.
C14_InvertedRangeRejected ==
    [][\A r \in Handlers :
          (/\ QueryStep(r)
           /\ req'[r].in.min_confidence # Null
           /\ req'[r].in.max_confidence # Null
           /\ req'[r].in.min_confidence > req'[r].in.max_confidence)
          => /\ resp'[r].status # 200
             /\ resp'[r].body = <<>>]_vars

\* The number of stored rows created after the given row.
NewerThan(s, row) == Cardinality({i \in DOMAIN s : s[i].created_at > row.created_at})

\* The smaller of two numbers, and a difference cut at zero.
Min(a, b) == IF a < b THEN a ELSE b
Monus(a, b) == IF a > b THEN a - b ELSE 0

\* Queries that give one optional filter and leave every other absent,
\* with the rows the given filter alone selects.
OwnerOnly(user_id) == [Unfiltered EXCEPT !.user_id = user_id]
ModelOnly(model) == [Unfiltered EXCEPT !.model = model]
SearchOnly(search_text) == [Unfiltered EXCEPT !.search_text = search_text]

\* C15: an absent optional filter restricts nothing.  With every optional
\* filter absent the page is the stored rows in descending creation order,
\* cut by offset and limit only; with one filter given, every row that
\* passes it is returned, whatever is NULL in the row's other columns.
C15_AbsentFilterUnrestricted ==
    [][/\ \A r \in Handlers :
              (/\ QueryStep(r)
               /\ resp'[r].status = 200
               /\ req'[r].in = [Unfiltered EXCEPT !.skip = req'[r].in.skip,
                                                  !.limit = req'[r].in.limit])
              => LET q == req'[r].in
                     page == PageOf(resp'[r])
                 IN  /\ Len(page) = Min(q.limit, Monus(Cardinality(DOMAIN store), q.skip))
                     /\ RowsOf(page, store)
                     /\ \A k \in 1..Len(page) :
                            NewerThan(store, page[k]) = q.skip + k - 1
       /\ store' # store =>
          /\ IdsOf(Query(store', Unfiltered)) = DOMAIN store'
          /\ \A user_id \in {"u1", "u2"} :
                 IdsOf(Query(store', OwnerOnly(user_id)))
                     = {id \in DOMAIN store' : store'[id].user_id = user_id}
          /\ \A model \in {"rfdetr", "yolo", "both"} :
                 IdsOf(Query(store', ModelOnly(model)))
                     = {id \in DOMAIN store' : store'[id].model = model}
          /\ IdsOf(Query(store', ModelOnly("all"))) = DOMAIN store']_vars

\* C15 witness: a query without any filter answered with every stored row,
\* among them a 'both' row (NULL confidence), a row without comment and a
\* row without image_hash and thresholds.
C15_Witness ==
    \E r \in Handlers :
        /\ pc[r] = "done"
        /\ req[r].op = "query"
        /\ req[r].in = [Unfiltered EXCEPT !.limit = 100]
        /\ resp[r].status = 200
        /\ IdsOf(PageOf(resp[r])) = DOMAIN store
        /\ \E a, b, c \in DOMAIN store :
               /\ store[a].model = "both" /\ store[a].confidence = Null
               /\ store[b].comment = NullText
               /\ store[c].image_hash = NoHash /\ store[c].rfdetr_threshold = Null

\* A text in lower case, and case-insensitive containment of a pattern in a
\* text that is not NULL.
Lower(text) == [k \in 1..Len(text) |-> LowerCode(text[k])]
ContainsCI(text, pattern) ==
    /\ text # NullText
    /\ \E i \in 1..(Len(text) - Len(pattern) + 1) :
           SubSeq(Lower(text), i, i + Len(pattern) - 1) = Lower(pattern)

\* The search texts the composition claim is read with: "a", "A", "B", "1",
\* "Sy" and "_".
SearchTexts == {TextA, <<65>>, <<66>>, <<49>>, <<83, 121>>, <<95>>}

\* The filter combinations the composition claim is read with.
FilterSpecs ==
    { QueryInput(0, WholeLimit, user_id, model, search_text, range[1], range[2]) :
        user_id \in {NullStr, "u1"}, model \in {NullStr, "rfdetr", "both"},
        search_text \in {NullText, TextA, <<66>>},
        range \in {<<Null, Null>>, <<80, 100>>} }

\* C16: the rows a query matches are the rows matched by each of its given
\* filters alone (owner, model, confidence range, search text); the search
\* text alone matches a row iff it is a case-insensitive substring of the
\* row's comment, of its owner's username or of its id.
C16_FiltersAreConjoined ==
    [][/\ store' # store =>
          /\ \A q \in FilterSpecs :
                 IdsOf(Query(store', q))
                     = IdsOf(Query(store', OwnerOnly(q.user_id)))
                       \cap IdsOf(Query(store', ModelOnly(q.model)))
                       \cap IdsOf(Query(store', SearchOnly(q.search_text)))
                       \cap IdsOf(Query(store', [Unfiltered EXCEPT
                                                   !.min_confidence = q.min_confidence,
                                                   !.max_confidence = q.max_confidence]))
          /\ \A search_text \in SearchTexts :
                 IdsOf(Query(store', SearchOnly(search_text)))
                     = {id \in DOMAIN store' :
                           \/ ContainsCI(store'[id].comment, search_text)
                           \/ ContainsCI(Username(store'[id].user_id), search_text)
                           \/ ContainsCI(IdText(id), search_text)}
       /\ \A r \in Handlers :
              (QueryStep(r) /\ resp'[r].status = 200)
              => LET q == req'[r].in
                 IN  IdsOf(PageOf(resp'[r])) \subseteq
                         {id \in DOMAIN store :
                             /\ q.user_id # NullStr => store[id].user_id = q.user_id
                             /\ q.model # NullStr => store[id].model = q.model
                             /\ q.search_text # NullText =>
                                    \/ ContainsCI(store[id].comment, q.search_text)
                                    \/ ContainsCI(Username(store[id].user_id), q.search_text)
                                    \/ ContainsCI(IdText(id), q.search_text)}]_vars

\* The offsets and limits the pagination claim is read with.
Offsets == 0..4
Limits == 1..3

\* The pages of the table s under the filters f slice the matched rows in
\* descending creation order.
PagesSlice(s, f) ==
    LET whole == Query(s, f)
        n == Len(whole)
        PageIds(i, l) == IdsOf(Query(s, [f EXCEPT !.skip = i * l, !.limit = l]))
    IN  /\ NewestFirst(whole)
        /\ RowsOf(whole, s)
        /\ Cardinality(IdsOf(whole)) = n
        /\ \A o \in Offsets, l \in Limits :
               LET page == Query(s, [f EXCEPT !.skip = o, !.limit = l])
               IN  /\ Len(page) = Min(l, Monus(n, o))
                   /\ \A k \in 1..Len(page) : page[k] = whole[o + k]
        /\ \A l \in Limits :
               /\ \A i, j \in 0..(n \div l + 1) :
                      i < j => PageIds(i, l) \cap PageIds(j, l) = {}
               /\ UNION {PageIds(i, l) : i \in 0..(n \div l + 1)} = IdsOf(whole)

\* C17: for one state of the table and one set of filters, the page at
\* offset s with limit l is elements s+1 .. s+l of the matched rows in
\* descending creation order: it holds min(l, max(0, matched - s)) rows, no
\* row twice, and the pages at offsets 0, l, 2l, ... are disjoint and
\* together hold every matched row once.
C17_PagesSliceTheOrder ==
    [][/\ store' # store =>
          \A f \in {Unfiltered, ModelOnly("rfdetr"), OwnerOnly("u1")} : PagesSlice(store', f)
       /\ \A r \in Handlers :
              (QueryStep(r) /\ resp'[r].status = 200)
              => LET q == req'[r].in
                     page == PageOf(resp'[r])
                     whole == Query(store, [q EXCEPT !.skip = 0, !.limit = WholeLimit])
                 IN  /\ Len(page) = Min(q.limit, Monus(Len(whole), q.skip))
                     /\ \A k \in 1..Len(page) : page[k] = whole[q.skip + k]
                     /\ resp'[r].body[1].total = Len(page)]_vars

\* C17 witness: a query with offset 1 and limit 1 answered with the second
\* newest of at least three stored rows.
C17_Witness ==
    \E r \in Handlers :
        /\ pc[r] = "done"
        /\ req[r].op = "query"
        /\ req[r].in.skip = 1 /\ req[r].in.limit = 1
        /\ resp[r].status = 200
        /\ Len(PageOf(resp[r])) = 1
        /\ Cardinality(DOMAIN store) >= 3
        /\ PageOf(resp[r])[1].id \in DOMAIN store
        /\ NewerThan(store, PageOf(resp[r])[1]) = 1

\* The detector thresholds a row holds.
RowThresholds(row) ==
    {d \in {"rfdetr", "yolo"} :
        (IF d = "rfdetr" THEN row.rfdetr_threshold ELSE row.yolo_threshold) # Null}

\* C19: every stored row fits its model selector.  A 'both' row holds two
\* results (under "rfdetr" and under "yolo"), both detector thresholds and
\* both per-detector confidences; an 'rfdetr' or 'yolo' row holds one result,
\* the threshold of its detector and no other, and one confidence.
C19_RowsFitTheirSelector ==
    \A id \in DOMAIN store :
        LET row == store[id]
        IN  IF row.model = "both"
            THEN /\ DOMAIN row.results = {"rfdetr", "yolo"}
                 /\ RowThresholds(row) = {"rfdetr", "yolo"}
                 /\ row.rfdetr_confidence # Null
                 /\ row.yolo_confidence # Null
            ELSE /\ "detections" \in DOMAIN row.results
                 /\ RowThresholds(row) = {row.model}
                 /\ row.confidence # Null
                 /\ row.rfdetr_confidence = Null
                 /\ row.yolo_confidence = Null

(***************************************************************************)
(* Properties of the functions called on their own                         *)
(***************************************************************************)

\* The results and thresholds of create_prediction's arguments fit the
\* model selector: two results and both thresholds for 'both', one result
\* and the detector's own threshold for 'rfdetr' and 'yolo'.
ArgsFitSelector(a) ==
    LET thresholds == {d \in {"rfdetr", "yolo"} :
                          (IF d = "rfdetr" THEN a.rfdetr_threshold
                                           ELSE a.yolo_threshold) # Null}
    IN  IF a.model = "both"
        THEN DOMAIN a.results = {"rfdetr", "yolo"} /\ thresholds = {"rfdetr", "yolo"}
        ELSE "detections" \in DOMAIN a.results /\ thresholds = {a.model}

\* C18: create_prediction called with a record whose results or thresholds
\* do not fit its model selector stores nothing and returns no row.
C18_CreateValidatesSelector ==
    [][(/\ call.op = "create_prediction"
        /\ call.out = <<>>
        /\ call'.out # <<>>
        /\ ~ArgsFitSelector(call.args[1]))
       => /\ store' = store
          /\ \A k \in 1..Len(call'.out) : call'.out[k] \notin {store'[id] : id \in DOMAIN store'}]_vars

\* C20: every detection of the result predict_rfdetr or predict_yolo
\* returns has a confidence at or above the threshold of the call, whatever
\* the detector's model returned.
C20_DetectionsAtOrAboveFloor ==
    (call.op \in {"predict_rfdetr", "predict_yolo"} /\ call.out # <<>>)
    => \A k \in 1..Len(call.out[1].detections) :
           call.out[1].detections[k].confidence >= call.args[2]

\* x1 < x2 and y1 < y2
WellFormedBox(xyxy) == xyxy[1] < xyxy[3] /\ xyxy[2] < xyxy[4]

\* The call ended in an error and returned no result.
Raised(out) == "error" \in DOMAIN out

\* C22: predict_rfdetr and predict_yolo fail with a malformed-output error
\* whenever a detection their model returned has a box that violates x1 < x2
\* or y1 < y2, and no result they return lists a detection with x1 >= x2 or
\* y1 >= y2.
C22_MalformedBoxesRejected ==
    (call.op \in {"predict_rfdetr_xyxy", "predict_yolo_xyxy"} /\ call.out # <<>>)
    => /\ (\E k \in 1..Len(call.args[1]) : ~WellFormedBox(call.args[1][k].xyxy))
          => Raised(call.out[1])
       /\ ~Raised(call.out[1])
          => \A k \in 1..Len(call.out[1].detections) :
                 WellFormedBox(call.out[1].detections[k].xyxy)

(***************************************************************************)
(* Properties of the predict endpoints' results, failures and files        *)
(***************************************************************************)

\* The confidences of the detections a normalized result lists.
DetectionConfidences(result) ==
    [i \in 1..Len(result.detections) |-> result.detections[i].confidence]

\* avg is the arithmetic mean of the confidences, to the hundredth, and 0
\* when there is none.
IsMeanOf(avg, confidences) ==
    IF confidences = <<>>
    THEN avg = 0
    ELSE /\ Len(confidences) * avg <= SumSeq(confidences)
         /\ SumSeq(confidences) < Len(confidences) * (avg + 1)

\* The result's aggregate confidence is the mean over its own detections.
AggregateIsMean(result) ==
    IsMeanOf(result.confidence, DetectionConfidences(result))

\* C21: the aggregate confidence of every result a detector call of a
\* predict request returns (rfdetr and yolo alike) is the arithmetic mean of
\* the confidences of the detections the result lists, 0 when it lists none;
\* and the row a predict request stores carries this aggregate as its
\* confidence (single-model) or as its rfdetr_confidence and yolo_confidence
\* ('both').
C21_AggregateIsMeanOfRetained ==
    [][\A r \in Handlers :
          (req'[r].op = "predict" /\ Acted(r))
          => /\ \A d \in DOMAIN loc'[r].results : AggregateIsMean(loc'[r].results[d])
             /\ (pc[r] = "insert" /\ resp'[r].prediction_id # Null)
                => LET row == store'[resp'[r].prediction_id]
                   IN  IF row.model = "both"
                       THEN /\ row.confidence = Null
                            /\ row.results = loc[r].results
                            /\ row.rfdetr_confidence = row.results["rfdetr"].confidence
                            /\ row.yolo_confidence = row.results["yolo"].confidence
                            /\ AggregateIsMean(row.results["rfdetr"])
                            /\ AggregateIsMean(row.results["yolo"])
                       ELSE /\ row.results = loc[r].results[row.model]
                            /\ row.confidence = row.results.confidence
                            /\ AggregateIsMean(row.results)]_vars

\* C21 witness: a stored 'rfdetr' row with two detections of different
\* confidences, and a stored 'both' row whose rfdetr result lists no
\* detection and whose yolo result lists one.
C21_Witness ==
    /\ \E id \in DOMAIN store :
           /\ store[id].model = "rfdetr"
           /\ store[id].image_hash # NoHash
           /\ Len(store[id].results.detections) = 2
           /\ store[id].results.detections[1].confidence > store[id].confidence
           /\ store[id].confidence > store[id].results.detections[2].confidence
    /\ \E id \in DOMAIN store :
           /\ store[id].model = "both"
           /\ store[id].image_hash # NoHash
           /\ store[id].results["rfdetr"].detections = <<>>
           /\ store[id].rfdetr_confidence = 0
           /\ Len(store[id].results["yolo"].detections) = 1
           /\ store[id].yolo_confidence > 0

\* The handler is inside a predict request.
InPredict(r) == req[r].op = "predict" /\ pc[r] \notin {"idle", "done"}

RowsWithImageOnly(s, in) ==
    {id \in DOMAIN s : s[id].image_hash = GenerateImageHash(in.content)}
        \ RowsWithKeyOf(s, in)

\* C26: the duplicate guard does not look at the owner.  When a row with the
\* request's bytes, selector and threshold(s) is stored for another user, the
\* request is answered as a duplicate naming a row with that key and stores
\* no row for its caller; a row with the same image under another selector
\* or another threshold is never named, and when only such rows are stored
\* the request goes on to its insert.
C26_GuardIgnoresOwner ==
    [][\A r \in Handlers :
          (InPredict(r) /\ pc[r] = "dup_check" /\ Acted(r))
          => LET in == req[r].in
                 foreign == {id \in RowsWithKeyOf(store, in) : store[id].user_id # in.user}
             IN  /\ foreign # {}
                    => /\ resp'[r].is_duplicate
                       /\ resp'[r].duplicate_id \in RowsWithKeyOf(store, in)
                       /\ pc'[r] = "done"
                       /\ {id \in DOMAIN store' : store'[id].user_id = in.user}
                              = {id \in DOMAIN store : store[id].user_id = in.user}
                 /\ resp'[r].is_duplicate
                    => resp'[r].duplicate_id \notin RowsWithImageOnly(store, in)
                 /\ RowsWithKeyOf(store, in) = {}
                    => ~resp'[r].is_duplicate /\ pc'[r] = "insert"]_vars

\* C26 witness: a request of one user answered as the duplicate of another
\* user's row, while the table also holds a row with the same image under
\* another threshold and no row of the caller with the request's key.
C26_Witness ==
    \E r \in Handlers :
        /\ AnsweredDuplicate(r)
        /\ resp[r].duplicate_id \in RowsWithKeyOf(store, req[r].in)
        /\ \A id \in RowsWithKeyOf(store, req[r].in) : store[id].user_id # req[r].in.user
        /\ RowsWithImageOnly(store, req[r].in) # {}

\* C28: a predict request whose upload validate_image_file rejects is
\* answered with the status the validation raises (413 for a file too large,
\* 400 for a file that is no image) and not with 500; no detector is run and
\* no row is stored.
C28_ValidationStatusReturned ==
    [][\A r \in Handlers :
          (/\ InPredict(r)
           /\ pc[r] = "validate"
           /\ Acted(r)
           /\ ValidateImageFile(req[r].in.upload) # 0)
          => /\ pc'[r] = "done"
             /\ resp'[r].status = ValidateImageFile(req[r].in.upload)
             /\ resp'[r].status # 500
             /\ loc'[r].results = <<>>
             /\ store' = store]_vars

\* The positions of a predict endpoint at which its temporary file exists.
TmpPositions == {"infer_rfdetr", "infer_yolo", "hash", "dup_check", "insert"}

\* C29: the temporary image file of a predict request exists only while the
\* request is between writing it and leaving the endpoint: whichever way the
\* request ends (row stored, duplicate answered, exception of a detector, of
\* the hashing, of the duplicate query or of the insert), the file is gone
\* when the request has been answered.
C29_TmpFileRemoved ==
    \A r \in Handlers :
        /\ r \in tmp => (req[r].op = "predict" /\ pc[r] \in TmpPositions)
        /\ (req[r].op = "predict" /\ pc[r] \in TmpPositions) => r \in tmp

\* C29 witness: no temporary file is left after one predict request has
\* stored its row and another has been answered 500 by an exception raised
\* after its duplicate query.
C29_Witness ==
    /\ tmp = {}
    /\ \E r1, r2 \in Handlers :
           /\ StoredNew(r1)
           /\ resp[r1].prediction_id \in DOMAIN store
           /\ req[r2].op = "predict"
           /\ pc[r2] = "done"
           /\ resp[r2].status = 500
           /\ loc[r2].dup_done

(***************************************************************************)
(* Properties of check-duplicate, statistics and delete-user               *)
(***************************************************************************)

\* The stored rows that agree with a duplicate check on image_hash, model
\* and every threshold of the model's key.
RowsMatchingCheck(s, q) ==
    {id \in DOMAIN s :
        /\ s[id].image_hash = q.image_hash
        /\ s[id].model = q.model
        /\ "rfdetr" \in KeyDetectors(q.model) => s[id].rfdetr_threshold = q.rfdetr_threshold
        /\ "yolo" \in KeyDetectors(q.model) => s[id].yolo_threshold = q.yolo_threshold}

\* The handler answers a request of the named operation in this step.
Answers(r, op) == Acted(r) /\ req'[r].op = op /\ pc'[r] = "done"

\* C24: a duplicate check answers is_duplicate = true exactly when the table
\* holds a row equal to the request on image_hash, model and every threshold
\* of the model's key (rfdetr_threshold for 'rfdetr', yolo_threshold for
\* 'yolo', both for 'both'); the duplicate_id it returns is such a row, so a
\* row that differs in one of these thresholds is never reported; and the
\* table is left as it was.
C24_CheckDuplicateExact ==
    [][\A r \in Handlers :
          Answers(r, "check_duplicate")
          => LET matching == RowsMatchingCheck(store, req'[r].in)
             IN  /\ resp'[r].status = 200
                 /\ resp'[r].is_duplicate <=> matching # {}
                 /\ resp'[r].is_duplicate => resp'[r].duplicate_id \in matching
                 /\ store' = store]_vars

\* C25: the numbers a statistics request returns fit one table: total is the
\* number of rows stored when it is counted, and the total returned is the sum
\* of the rfdetr, yolo and both counts returned with it, also when predict or
\* delete requests run while the statistics request does.
C25_StatisticsConsistent ==
    [][\A r \in Handlers :
          /\ (pc[r] = "count_total" /\ Acted(r))
             => loc'[r].results["total"] = Cardinality(DOMAIN store)
          /\ Answers(r, "statistics")
             => LET stats == resp'[r].body[1]
                IN  stats.total = stats.rfdetr + stats.yolo + stats.both]_vars

\* The duplicate check names every threshold of its model's key.
FullKey(q) ==
    /\ "rfdetr" \in KeyDetectors(q.model) => q.rfdetr_threshold # Null
    /\ "yolo" \in KeyDetectors(q.model) => q.yolo_threshold # Null

\* The key of a stored row as a duplicate check names it.
KeyOfRow(row) ==
    CheckDuplicateInput(row.image_hash, row.model, row.rfdetr_threshold, row.yolo_threshold)

\* C27: deleting the only row with a key frees the key.  The deletion leaves
\* no row with the key; a duplicate check that names the whole key, on a table
\* without a row of it, answers false; the duplicate lookup of a predict request
\* on such a table is not answered as a duplicate; and the row the request
\* then stores has that key and an id no row was ever stored under.
C27_DeleteFreesKey ==
    [][\A r \in Handlers :
          /\ (Answers(r, "delete") /\ req'[r].id \in DOMAIN store)
             => LET key == KeyOfRow(store[req'[r].id])
                IN  RowsMatchingCheck(store, key) = {req'[r].id}
                    => /\ RowsMatchingCheck(store', key) = {}
                       /\ CheckDuplicateQuery(store', key.image_hash, key.model,
                              key.rfdetr_threshold, key.yolo_threshold) = {}
          /\ (/\ Answers(r, "check_duplicate")
              /\ FullKey(req'[r].in)
              /\ RowsMatchingCheck(store, req'[r].in) = {})
             => ~resp'[r].is_duplicate
          /\ (InPredict(r) /\ Acted(r) /\ RowsWithKeyOf(store, req[r].in) = {})
             => /\ ~resp'[r].is_duplicate
                /\ (pc[r] = "insert" /\ resp'[r].status = 200)
                   => /\ resp'[r].prediction_id = nextId
                      /\ nextId' > nextId
                      /\ \A id \in DOMAIN store : id < nextId
                      /\ RowsWithKeyOf(store', req[r].in) = {resp'[r].prediction_id}]_vars

\* C27 witness: the row stored under id 1 has been deleted, a duplicate
\* check for the key "imgA / rfdetr / 0.1" has answered false, and a predict
\* request with that key has stored the row with id 2.
C27_Witness ==
    /\ DOMAIN store = {2}
    /\ nextId = 3
    /\ \E r1, r2 \in Handlers :
           /\ req[r1].op = "check_duplicate"
           /\ pc[r1] = "done"
           /\ ~resp[r1].is_duplicate
           /\ req[r1].in = KeyOfRow(store[2])
           /\ StoredNew(r2)
           /\ resp[r2].prediction_id = 2
           /\ req[r2].in.content = "imgA"
           /\ req[r2].in.confidence_threshold = 10

\* C30: every stored row's user_id is NULL or the id of a row of the users
\* table; a step that deletes a user leaves no prediction of that user; and
\* the user a request deletes is never the request's caller, also while a
\* predict request of the user being deleted is in flight.
C30_OwnersStayValid ==
    /\ [](\A id \in DOMAIN store : store[id].user_id \in users \cup {NullStr})
    /\ [][\A user_id \in users \ users' :
              /\ \A id \in DOMAIN store' : store'[id].user_id # user_id
              /\ \E r \in Handlers :
                     /\ Answers(r, "delete_user")
                     /\ req[r].in.user_id = user_id
                     /\ req[r].in.current_user # user_id]_vars

====
